---- MODULE Spec2Model ----
(***************************************************************************)
(* A model of timeit_decorator: the decorator factories timeit_sync and    *)
(* timeit_async, the wrapped callable they produce, and one outer call of  *)
(* that wrapped callable (fast path, thread pool, process pool or asyncio  *)
(* gather under a semaphore).                                              *)
(*                                                                         *)
(* Time is counted in ticks.  A callable's duration is a whole number of   *)
(* ticks; a deadline that falls on a tick is served after the completions  *)
(* and the starts due on that tick, so an attempt of duration d beats a    *)
(* timeout t exactly when d <= t.                                          *)
(***************************************************************************)
EXTENDS Integers, Sequences, FiniteSets, TLC

\* ---- bounds of the model ------------------------------------------------
MaxRuns == 2
MaxDur == 3
MaxTimeout == 1
MaxInner == 1

\* ---- Python values ------------------------------------------------------
\* None in a slot that otherwise holds a number (a duration, a timeout).
NoTime == -1
\* None, and the empty list, in a slot that holds a callable's value.
None == "None"
EmptyList == "[]"
\* The non-None values the wrapped callable may return.
Values == {"a", "b"}
\* The error the wrapped callable raises, and the errors the harness raises.
CallableError == "CallableError"
ValueError == "ValueError"
TypeError == "TypeError"
PicklingError == "PicklingError"
RuntimeError == "RuntimeError"

RunsIn == 0..MaxRuns
WorkersIn == 0..(MaxRuns + 1)
TimeoutsIn == {NoTime} \cup (0..MaxTimeout)
Durations == 0..MaxDur
\* The duration of a callable that never returns, and what a pool or the
\* event loop may be handed: a callable that ends after some ticks or never.
Forever == MaxDur + 1
StartDurations == Durations \cup {Forever}
Attempts == 1..MaxRuns

VARIABLES pc, cfg, path, att, results, ci, waited, ret, report, calls, pools,
          inner, entered, call

vars == <<pc, cfg, path, att, results, ci, waited, ret, report, calls, pools,
          inner, entered, call>>

\* ---- the decorator factories -------------------------------------------
\* The validation with `and` written for `or`.
ConfigInvalidBothOnly(r, w) == r < 1 /\ w < 1

\* `if runs < 1 or workers < 1: raise ValueError`
ConfigInvalid(r, w) == r < 1 \/ w < 1

\* The clamp left out: `workers` used as given.
ClampWorkersMissing(w, r) == w

\* `workers = min(workers, runs)`
ClampWorkers(w, r) == IF w < r THEN w ELSE r

\* Python truthiness of `timeout` (`if timeout:`): None and 0 are false.
Truthy(t) == t # NoTime /\ t # 0

NoCfg ==
    [kind |-> "none", runs |-> 0, workers |-> 0, weff |-> 0, mp |-> FALSE,
     detailed |-> FALSE, timeout |-> NoTime, enforce |-> FALSE]

\* The closure variables of the decorator; weff is `workers` after the clamp
\* and stays 0 when the factory raised before reaching it.
MakeCfg(k, r, w, m, d, t, e) ==
    [kind |-> k, runs |-> r, workers |-> w,
     weff |-> IF ConfigInvalid(r, w) THEN 0 ELSE ClampWorkers(w, r),
     mp |-> m, detailed |-> d, timeout |-> t, enforce |-> e]

NoRet == [k |-> "none", v |-> None]
Returned(v) == [k |-> "value", v |-> v]
Raised(e) == [k |-> "error", v |-> e]

\* ---- result records -----------------------------------------------------
\* A result tuple (duration, value, timed_out); timed_out is "True", "False"
\* or "None".
Rec(t, v, to) == <<t, v, to>>
NoRec == <<>>

\* Which argument objects an invocation works on: the caller's own (the
\* `args` tuple and `kwargs` dict of the outer call and what they hold), or
\* the k-th copy unpickled in a pool process.
NoArgs == -1
CallerArgs == 0

\* ---- the outer call's arguments -----------------------------------------
\* What `args[0]` is, as far as `hasattr(args[0], func.__name__)` and
\* `getattr(args[0], func.__name__)` can tell: there is no positional
\* argument; an object with no attribute of the callable's name; the
\* receiver of a decorated method, whose attribute of that name is the
\* decorated method itself; or some object that happens to have an attribute
\* of that name (a list passed to a function called `count`).  kw says
\* whether keyword arguments were given.
FirstArgs == {"absent", "plain", "receiver", "namesake"}
CallShapes == [first : FirstArgs, kw : BOOLEAN]

\* f(x, k=y) for a module-level function f and an ordinary x.
PlainCall == [first |-> "plain", kw |-> TRUE]

\* `hasattr(args[0], method_name) if args else False`
IsInstanceMethod(c) == c.first \in {"receiver", "namesake"}

\* What an attempt ended up invoking: the original callable ("func") or the
\* first argument's other attribute ("attr"); with all the positional
\* arguments of the outer call or only `args[1:]`; with or without its
\* keyword arguments.
NoInv == [target |-> "none", pos |-> "none", kw |-> FALSE]

\* `func(*args, **kwargs)`
DirectCall(c) == [target |-> "func", pos |-> "all", kw |-> c.kw]

\* `getattr(instance, method_name)(*method_args, **method_kwargs)` with kw
\* telling whether the work item's keyword arguments are passed on.  For a
\* receiver the attribute is the decorated method: called in a pool thread
\* or process it takes the guard's `return func(*args, **kwargs)` with the
\* receiver bound in front.  For a namesake it is whatever that attribute is.
AttributeCall(c, kw) ==
    IF c.first = "receiver"
    THEN [target |-> "func", pos |-> "all", kw |-> kw]
    ELSE [target |-> "attr", pos |-> "rest", kw |-> kw]

\* The work items of the legacy wrapper, `((args[0], method_name) + args[1:],
\* {})` for a method: its _timeit_worker unpacks the first element and calls
\* `method(*method_args)`; the keyword arguments of the outer call are in no
\* work item.
LegacyWorkerCall(c) ==
    IF IsInstanceMethod(c) THEN AttributeCall(c, FALSE) ELSE DirectCall(c)

\* The work items of sync_wrapper, as _timeit_worker runs them.
SyncWorkerCall(c) ==
    IF IsInstanceMethod(c) THEN AttributeCall(c, c.kw) ELSE DirectCall(c)

IdleAtt ==
    [st |-> "idle", out |-> "none", val |-> None, dur |-> 0, el |-> 0,
     late |-> FALSE, rec |-> NoRec, args |-> NoArgs, inv |-> NoInv]

\* The statistics of a report.  Durations are whole ticks, so the average
\* is kept as total and n, the median as twice its value (med2), and the
\* standard deviation as var = n * (n - 1) * stdev^2, which is 0 exactly
\* when stdev is.
NoStats == [n |-> 0, total |-> 0, min |-> 0, max |-> 0, med2 |-> 0, var |-> 0]

NoReport == [kind |-> "none", times |-> <<>>, anyTO |-> FALSE, stats |-> NoStats]

Init ==
    /\ pc = "start"
    /\ cfg = NoCfg
    /\ path = "none"
    /\ att = [i \in Attempts |-> IdleAtt]
    /\ results = <<>>
    /\ ci = 1
    /\ waited = 0
    /\ ret = NoRet
    /\ report = NoReport
    /\ calls = 0
    /\ pools = 0
    /\ inner = 0
    /\ entered = 0
    /\ call = PlainCall

\* timeit_sync(runs, workers, ..., use_multiprocessing, detailed, timeout,
\* enforce_timeout): validate, clamp, build the decorator.
TimeitSync ==
    /\ pc = "start"
    /\ \E r \in RunsIn, w \in WorkersIn, m \in BOOLEAN, d \in BOOLEAN,
          t \in TimeoutsIn, e \in BOOLEAN :
          /\ cfg' = MakeCfg("sync", r, w, m, d, t, e)
          /\ IF ConfigInvalid(r, w)
             THEN pc' = "cfgError" /\ ret' = Raised(ValueError)
             ELSE pc' = "ready" /\ ret' = ret
    /\ UNCHANGED <<call, path, att, results, ci, waited, report, calls, pools, inner, entered>>

\* timeit_async(...): the same validation and clamp; use_multiprocessing is
\* accepted and never read, so the closure does not keep it.
TimeitAsync ==
    /\ pc = "start"
    /\ \E r \in RunsIn, w \in WorkersIn, m \in BOOLEAN, d \in BOOLEAN,
          t \in TimeoutsIn, e \in BOOLEAN :
          /\ cfg' = MakeCfg("async", r, w, FALSE, d, t, e)
          /\ IF ConfigInvalid(r, w)
             THEN pc' = "cfgError" /\ ret' = Raised(ValueError)
             ELSE pc' = "ready" /\ ret' = ret
    /\ UNCHANGED <<call, path, att, results, ci, waited, report, calls, pools, inner, entered>>

\* ---- the wrapped callable ----------------------------------------------
\* What one invocation of the wrapped callable does: it returns None or a
\* value, or it raises.
Outcomes == {<<"ok", v>> : v \in Values \cup {None}} \cup {<<"raise", None>>}

\* An attempt that ran the callable to its end after d ticks.
Finished(a, o, d, r) ==
    [a EXCEPT !.st = "done", !.out = o[1], !.val = o[2], !.dur = d, !.el = d,
              !.rec = r]

\* The reentrancy guard of sync_wrapper and async_wrapper: a call made off
\* the main thread, or outside the main process, is `return func(*args)`.
GuardBypass ==
    /\ pc = "ready"
    /\ \E o \in Outcomes :
          /\ att' = [att EXCEPT ![1] = Finished([@ EXCEPT !.args = CallerArgs, !.inv = DirectCall(call)], o, 0, NoRec)]
          /\ IF o[1] = "raise"
             THEN pc' = "raised" /\ ret' = Raised(CallableError)
             ELSE pc' = "returned" /\ ret' = Returned(o[2])
    /\ path' = "bypass"
    /\ calls' = calls + 1
    /\ UNCHANGED <<call, cfg, results, ci, waited, report, pools, inner, entered>>

\* ---- the synchronous fast path -----------------------------------------
SingleReport(d) ==
    [kind |-> "single", times |-> <<d>>, anyTO |-> FALSE, stats |-> NoStats]

\* The fast path with the call wrapped in a try that swallows the error.
FastPathResultSwallowed(o) ==
    IF o[1] = "raise" THEN Returned(None) ELSE Returned(o[2])

\* What the caller of the fast path gets: `result = func(*args, **kwargs)`
\* is outside any try, `return result` follows the log call.
FastPathResult(o) ==
    IF o[1] = "raise" THEN Raised(CallableError) ELSE Returned(o[2])

\* A fast path that gives up on the callable at the timeout when enforcing.
SyncFastPathEnforcing ==
    /\ pc = "ready"
    /\ cfg.kind = "sync"
    /\ cfg.runs = 1 /\ cfg.weff = 1
    /\ \E o \in Outcomes, d \in Durations :
          IF cfg.enforce /\ Truthy(cfg.timeout) /\ d > cfg.timeout
          THEN /\ att' = [att EXCEPT ![1] =
                          [@ EXCEPT !.st = "cancelled", !.dur = d,
                                    !.el = cfg.timeout, !.args = CallerArgs, !.inv = DirectCall(call)]]
               /\ ret' = Returned(None)
               /\ pc' = "returned"
               /\ report' = SingleReport(cfg.timeout)
          ELSE /\ att' = [att EXCEPT ![1] = Finished([@ EXCEPT !.args = CallerArgs, !.inv = DirectCall(call)], o, d, NoRec)]
               /\ ret' = FastPathResult(o)
               /\ pc' = IF FastPathResult(o).k = "error" THEN "raised" ELSE "returned"
               /\ report' = IF o[1] = "raise" THEN NoReport ELSE SingleReport(d)
    /\ path' = "fast"
    /\ \E k \in 0..MaxInner :
          /\ inner' = inner + k
          /\ calls' = calls + 1 + k
          /\ entered' = entered + 1 + k
    /\ UNCHANGED <<call, cfg, results, ci, waited, pools>>

\* `if runs == 1 and workers == 1:` with the callable run in place, on the
\* main thread.  Its body may call the wrapped callable k times: those calls
\* are made on the main thread too, the guard lets them in, and each takes
\* the fast path in its turn (one invocation, one pass through the wrapper).
SyncFastPath ==
    /\ pc = "ready"
    /\ cfg.kind = "sync"
    /\ cfg.runs = 1 /\ cfg.weff = 1
    /\ \E o \in Outcomes, d \in Durations :
          /\ att' = [att EXCEPT ![1] = Finished([@ EXCEPT !.args = CallerArgs, !.inv = DirectCall(call)], o, d, NoRec)]
          /\ ret' = FastPathResult(o)
          /\ pc' = IF FastPathResult(o).k = "error" THEN "raised" ELSE "returned"
          /\ report' = IF o[1] = "raise" THEN NoReport ELSE SingleReport(d)
    /\ path' = "fast"
    /\ \E k \in 0..MaxInner :
          /\ inner' = inner + k
          /\ calls' = calls + 1 + k
          /\ entered' = entered + 1 + k
    /\ UNCHANGED <<call, cfg, results, ci, waited, pools>>

\* ---- the pools ----------------------------------------------------------
Batch == 1..cfg.runs
Running == {i \in Attempts : att[i].st = "running"}
Queued == {i \in Attempts : att[i].st = "queued"}
Settled == \A i \in Batch : att[i].st \in {"done", "cancelled"}
MinOf(S) == CHOOSE x \in S : \A y \in S : x <= y

\* A pool that starts a thread or process for every queued work item.
StartPossibleUnbounded == Queued # {}

\* A queued attempt and a free execution unit (pool thread, pool process,
\* semaphore slot).
StartPossible == Queued # {} /\ Cardinality(Running) < cfg.weff
\* A running attempt whose callable ends on this tick.
Due(i) == att[i].st = "running" /\ att[i].el = att[i].dur
NothingDue == ~StartPossible /\ \A i \in Attempts : ~Due(i)

QueueAll == [i \in Attempts |-> IF i \in Batch THEN [IdleAtt EXCEPT !.st = "queued"] ELSE IdleAtt]

\* use_multiprocessing with enforce_timeout: ValueError from inside the call.
SyncRejectMultiprocessing ==
    /\ pc = "ready"
    /\ cfg.kind = "sync"
    /\ ~(cfg.runs = 1 /\ cfg.weff = 1)
    /\ cfg.mp /\ cfg.enforce
    /\ pc' = "raised"
    /\ ret' = Raised(ValueError)
    /\ path' = "batch"
    /\ entered' = entered + 1
    /\ UNCHANGED <<call, cfg, att, results, ci, waited, report, calls, pools, inner>>

\* `with Pool(workers) as pool: results = pool.map(_timeit_worker, worker_args)`
\* with work items that pickle (func still bound to its own name, or the
\* receiver and the method name in its place).
SyncPoolMap ==
    /\ pc = "ready"
    /\ cfg.kind = "sync"
    /\ ~(cfg.runs = 1 /\ cfg.weff = 1)
    /\ cfg.mp /\ ~cfg.enforce
    /\ att' = QueueAll
    /\ pools' = pools + 1
    /\ pc' = "mapping"
    /\ path' = "batch"
    /\ entered' = entered + 1
    /\ UNCHANGED <<call, cfg, results, ci, waited, ret, report, calls, inner>>

\* The same statement when worker_args cannot be pickled.  A work item holds
\* `func`, the undecorated function, unless the first argument has an
\* attribute of its name; a function pickles by reference to its module and
\* name, and after `@timeit_sync(...)` that name is bound to sync_wrapper,
\* not to func, so pool.map raises PicklingError and no attempt runs.
SyncPoolMapUnpicklable ==
    /\ pc = "ready"
    /\ cfg.kind = "sync"
    /\ ~(cfg.runs = 1 /\ cfg.weff = 1)
    /\ cfg.mp /\ ~cfg.enforce
    /\ att' = QueueAll
    /\ pools' = pools + 1
    /\ pc' = "raised"
    /\ ret' = Raised(PicklingError)
    /\ path' = "batch"
    /\ entered' = entered + 1
    /\ UNCHANGED <<call, cfg, results, ci, waited, report, calls, inner>>

\* `with ThreadPoolExecutor(max_workers=workers)`, one submit per attempt.
SyncSubmit ==
    /\ pc = "ready"
    /\ cfg.kind = "sync"
    /\ ~(cfg.runs = 1 /\ cfg.weff = 1)
    /\ ~cfg.mp
    /\ att' = QueueAll
    /\ pools' = pools + 1
    /\ pc' = "collect"
    /\ path' = "batch"
    /\ entered' = entered + 1
    /\ UNCHANGED <<call, cfg, results, ci, waited, ret, report, calls, inner>>

\* A worker that times the callable in a finally clause: the record of a
\* callable that raised keeps its duration.
WorkerRecordTimedFailure(o, d, t, e) ==
    IF o[1] = "raise"
    THEN Rec(d, None, "None")
    ELSE Rec(d, o[2], IF t # NoTime /\ d > t /\ ~e THEN "True" ELSE "False")

\* _timeit_worker's return value for a callable that took d ticks.
WorkerRecord(o, d, t, e) ==
    IF o[1] = "raise"
    THEN Rec(NoTime, None, "None")
    ELSE Rec(d, o[2], IF t # NoTime /\ d > t /\ ~e THEN "True" ELSE "False")

\* The chunk size pool.map chooses for n work items and a pool of w
\* processes; the items of one chunk are pickled together.
ChunkSize(n, w) ==
    IF n % (4 * w) # 0 THEN (n \div (4 * w)) + 1 ELSE n \div (4 * w)

\* The argument objects work item i brings to its callable.  Every item of
\* worker_args holds the same `args` and `kwargs` objects (for a method,
\* `args[1:]`, a new tuple of the same objects): a pool thread calls the
\* callable on them as they are, a pool process on what it unpickled from
\* the item's chunk.
ReceivedArgs(i) ==
    IF cfg.mp THEN 1 + ((i - 1) \div ChunkSize(cfg.runs, cfg.weff)) ELSE CallerArgs

\* A pool thread or process takes the next work item and enters the callable.
WorkerStart ==
    /\ pc \in {"collect", "mapping"}
    /\ StartPossible
    /\ \E d \in StartDurations :
          att' = [att EXCEPT ![MinOf(Queued)] =
                     [@ EXCEPT !.st = "running", !.dur = d,
                               !.args = ReceivedArgs(MinOf(Queued)),
                               !.inv = SyncWorkerCall(call)]]
    /\ calls' = calls + (IF SyncWorkerCall(call).target = "func" THEN 1 ELSE 0)
    /\ UNCHANGED <<call, pc, cfg, path, results, ci, waited, ret, report, pools, inner, entered>>

\* The callable returns or raises inside _timeit_worker; the future is set.
WorkerFinish ==
    /\ pc \in {"collect", "mapping"}
    /\ \E i \in Attempts, o \in Outcomes :
          /\ Due(i)
          /\ att' = [att EXCEPT ![i] =
                 Finished(@, o, @.el, WorkerRecord(o, @.el, cfg.timeout, cfg.enforce))]
    /\ UNCHANGED <<call, pc, cfg, path, results, ci, waited, ret, report, calls, pools, inner, entered>>

\* ---- the thread coordinator's loop over the futures ---------------------
\* The test reduced to `if enforce_timeout:`.
EnforcingWithoutTimeout == cfg.enforce

\* `if enforce_timeout and timeout:`
Enforcing == cfg.enforce /\ Truthy(cfg.timeout)

\* future.result() (or future.result(timeout=timeout) in time): append.
CollectResult ==
    /\ pc = "collect"
    /\ ci <= cfg.runs
    /\ att[ci].st = "done"
    /\ results' = Append(results, att[ci].rec)
    /\ ci' = ci + 1
    /\ waited' = 0
    /\ UNCHANGED <<call, pc, cfg, path, att, ret, report, calls, pools, inner, entered>>

\* future.result(timeout=timeout) raises TimeoutError: future.cancel()
\* (which only succeeds on a future no thread has taken) and a
\* (timeout, None, True) record.
CollectTimeout ==
    /\ pc = "collect"
    /\ ci <= cfg.runs
    /\ Enforcing
    /\ att[ci].st \in {"queued", "running"}
    /\ waited >= cfg.timeout
    /\ NothingDue
    /\ att' = [att EXCEPT ![ci] = IF @.st = "queued" THEN [@ EXCEPT !.st = "cancelled"] ELSE @]
    /\ results' = Append(results, Rec(cfg.timeout, None, "True"))
    /\ ci' = ci + 1
    /\ waited' = 0
    /\ UNCHANGED <<call, pc, cfg, path, ret, report, calls, pools, inner, entered>>

\* ---- aggregation --------------------------------------------------------
RECURSIVE Pick(_, _, _)
\* [r[k] for r in res if r[k] is not absent]
Pick(res, k, absent) ==
    IF res = <<>> THEN <<>>
    ELSE IF Head(res)[k] # absent
         THEN <<Head(res)[k]>> \o Pick(Tail(res), k, absent)
         ELSE Pick(Tail(res), k, absent)

\* The durations taken with no filter: a failed record's None included.
TimesUnfiltered(res) == [k \in 1..Len(res) |-> res[k][1]]

Times(res) == Pick(res, 1, NoTime)
ValidResults(res) == Pick(res, 2, None)
TimedOutFlags(res) == Pick(res, 3, "None")
\* all() written for any().
AllTrue(flags) == \A k \in 1..Len(flags) : flags[k] = "True"

\* any(timed_out)
AnyTrue(flags) == \E k \in 1..Len(flags) : flags[k] = "True"

\* `if not times: ... return None if not detailed else []`
AllFailedReturn(detailed) == IF detailed THEN EmptyList ELSE None

\* The last valid result returned where the first is meant.
FirstValidLast(valid) == IF valid = <<>> THEN None ELSE valid[Len(valid)]

\* `for result in valid_results: if result is not None: return result`
FirstValid(valid) == IF valid = <<>> THEN None ELSE Head(valid)

\* The all-failed exit taken when no record holds a value.
BatchReturnByValues(res, detailed) ==
    IF ValidResults(res) = <<>> THEN AllFailedReturn(detailed)
    ELSE FirstValid(ValidResults(res))

\* The value the batched wrapper returns.
BatchReturn(res, detailed) ==
    IF Times(res) = <<>> THEN AllFailedReturn(detailed)
    ELSE FirstValid(ValidResults(res))

\* ---- statistics ---------------------------------------------------------
RECURSIVE SumSeq(_)
\* sum(times)
SumSeq(s) == IF s = <<>> THEN 0 ELSE Head(s) + SumSeq(Tail(s))

\* min(times), max(times)
MinSeq(s) == CHOOSE x \in {s[k] : k \in 1..Len(s)} : \A k \in 1..Len(s) : x <= s[k]
MaxSeq(s) == CHOOSE x \in {s[k] : k \in 1..Len(s)} : \A k \in 1..Len(s) : x >= s[k]

RECURSIVE InsertSorted(_, _)
InsertSorted(x, s) ==
    IF s = <<>> THEN <<x>>
    ELSE IF x <= Head(s) THEN <<x>> \o s
    ELSE <<Head(s)>> \o InsertSorted(x, Tail(s))

RECURSIVE Sorted(_)
\* sorted(data), as statistics.median starts
Sorted(s) == IF s = <<>> THEN <<>> ELSE InsertSorted(Head(s), Sorted(Tail(s)))

\* The median taken at the middle of the data as they come, unsorted.
Median2Unsorted(s) ==
    IF Len(s) % 2 = 1 THEN 2 * s[(Len(s) + 1) \div 2]
    ELSE s[Len(s) \div 2] + s[(Len(s) \div 2) + 1]

\* Twice median(times): the middle element of the sorted data, or the mean
\* of the two middle ones.
Median2(s) ==
    IF Len(s) % 2 = 1 THEN 2 * Sorted(s)[(Len(s) + 1) \div 2]
    ELSE Sorted(s)[Len(s) \div 2] + Sorted(s)[(Len(s) \div 2) + 1]

\* n * (n - 1) * stdev(times)^2, the sample variance being
\* sum((x - mean)^2) / (n - 1); `stdev(times) if len(times) > 1 else 0`.
ScaledVariance(s) ==
    IF Len(s) > 1
    THEN Len(s) * SumSeq([k \in 1..Len(s) |-> s[k] * s[k]]) - SumSeq(s) * SumSeq(s)
    ELSE 0

\* avg_time, med_time, min_time, max_time, std_dev, total_time
Statistics(s) ==
    [n |-> Len(s), total |-> SumSeq(s), min |-> MinSeq(s), max |-> MaxSeq(s),
     med2 |-> Median2(s), var |-> ScaledVariance(s)]

\* What the batched wrapper logs: nothing but an error line when no attempt
\* has a time, else the statistics (Timed Out only in the detailed table).
BatchReport(res, detailed) ==
    IF Times(res) = <<>> THEN NoReport
    ELSE [kind |-> "stats", times |-> Times(res),
          anyTO |-> detailed /\ AnyTrue(TimedOutFlags(res)),
          stats |-> Statistics(Times(res))]

\* The with block left without joining the pool threads (shutdown with
\* wait=False).
SyncFinishNoJoin ==
    /\ pc = "collect"
    /\ ci > cfg.runs
    /\ ret' = Returned(BatchReturn(results, cfg.detailed))
    /\ report' = BatchReport(results, cfg.detailed)
    /\ pc' = "returned"
    /\ UNCHANGED <<call, cfg, path, att, results, ci, waited, calls, pools, inner, entered>>

\* The with block ends (shutdown(wait=True) joins every pool thread), then
\* the results are aggregated, logged and the first valid one returned.
SyncFinish ==
    /\ pc = "collect"
    /\ ci > cfg.runs
    /\ Settled
    /\ ret' = Returned(BatchReturn(results, cfg.detailed))
    /\ report' = BatchReport(results, cfg.detailed)
    /\ pc' = "returned"
    /\ UNCHANGED <<call, cfg, path, att, results, ci, waited, calls, pools, inner, entered>>

\* pool.map returns the workers' tuples in submission order; then as above.
SyncMapFinish ==
    /\ pc = "mapping"
    /\ Settled
    /\ LET res == [i \in Batch |-> att[i].rec] IN
          /\ results' = res
          /\ ret' = Returned(BatchReturn(res, cfg.detailed))
          /\ report' = BatchReport(res, cfg.detailed)
    /\ pc' = "returned"
    /\ UNCHANGED <<call, cfg, path, att, ci, waited, calls, pools, inner, entered>>

\* ---- the asynchronous coordinator ---------------------------------------
\* run_once on the fast path: `duration, result, _ = await run_once()` with
\* no semaphore around it.
AsyncFastStart ==
    /\ pc = "ready"
    /\ cfg.kind = "async"
    /\ cfg.runs = 1 /\ cfg.weff = 1
    /\ \E d \in StartDurations :
          att' = [att EXCEPT ![1] = [@ EXCEPT !.st = "running", !.dur = d,
                                               !.args = CallerArgs, !.inv = DirectCall(call)]]
    /\ calls' = calls + 1
    /\ pc' = "afast"
    /\ path' = "fast"
    /\ entered' = entered + 1
    /\ UNCHANGED <<call, cfg, results, ci, waited, ret, report, pools, inner>>

\* `sem = asyncio.Semaphore(workers)` and gather over runs limited_run tasks.
AsyncGather ==
    /\ pc = "ready"
    /\ cfg.kind = "async"
    /\ ~(cfg.runs = 1 /\ cfg.weff = 1)
    /\ att' = QueueAll
    /\ pc' = "gather"
    /\ path' = "batch"
    /\ entered' = entered + 1
    /\ UNCHANGED <<call, cfg, results, ci, waited, ret, report, calls, pools, inner>>

\* limited_run without `async with sem:`: every task goes straight into
\* run_once.
TaskStartUngated ==
    /\ pc = "gather"
    /\ Queued # {}
    /\ \E d \in StartDurations :
          att' = [att EXCEPT ![MinOf(Queued)] =
                     [@ EXCEPT !.st = "running", !.dur = d, !.args = CallerArgs, !.inv = DirectCall(call)]]
    /\ calls' = calls + 1
    /\ UNCHANGED <<call, pc, cfg, path, results, ci, waited, ret, report, pools, inner, entered>>

\* limited_run: `async with sem:` acquired, run_once takes start_time and
\* starts the coroutine.
TaskStart ==
    /\ pc = "gather"
    /\ StartPossible
    /\ \E d \in StartDurations :
          att' = [att EXCEPT ![MinOf(Queued)] =
                     [@ EXCEPT !.st = "running", !.dur = d, !.args = CallerArgs, !.inv = DirectCall(call)]]
    /\ calls' = calls + 1
    /\ UNCHANGED <<call, pc, cfg, path, results, ci, waited, ret, report, pools, inner, entered>>

\* run_once's return value when the coroutine ends after d ticks; late says
\* that asyncio.wait already came back with the task pending.
AsyncRecord(o, d, late, t, e) ==
    IF o[1] = "raise"
    THEN Rec(NoTime, None, "False")
    ELSE IF Truthy(t) /\ ~e /\ late THEN Rec(d, o[2], "True")
    ELSE Rec(d, o[2], "False")

\* The awaited coroutine returns or raises; run_once returns its tuple and
\* limited_run leaves the semaphore.
TaskFinish ==
    /\ pc \in {"gather", "afast"}
    /\ \E i \in Attempts, o \in Outcomes :
          /\ Due(i)
          /\ att' = [att EXCEPT ![i] =
                 Finished(@, o, @.el, AsyncRecord(o, @.el, @.late, cfg.timeout, cfg.enforce))]
    /\ UNCHANGED <<call, pc, cfg, path, results, ci, waited, ret, report, calls, pools, inner, entered>>

\* A running task whose timeout (armed by `if timeout:`) expires now.
TimerDue(i) ==
    /\ att[i].st = "running"
    /\ Truthy(cfg.timeout)
    /\ ~att[i].late
    /\ att[i].el >= cfg.timeout

\* Soft: asyncio.wait({task}, timeout) returns with the task pending; the
\* warning is logged and the task awaited to its end.
TaskTimerSoft ==
    /\ pc \in {"gather", "afast"}
    /\ ~cfg.enforce
    /\ NothingDue
    /\ \E i \in Attempts :
          /\ TimerDue(i)
          /\ att' = [att EXCEPT ![i] = [@ EXCEPT !.late = TRUE]]
    /\ UNCHANGED <<call, pc, cfg, path, results, ci, waited, ret, report, calls, pools, inner, entered>>

\* Enforced: asyncio.wait_for cancels the task and raises TimeoutError;
\* run_once returns (elapsed, None, True).
TaskTimerEnforced ==
    /\ pc \in {"gather", "afast"}
    /\ cfg.enforce
    /\ NothingDue
    /\ \E i \in Attempts :
          /\ TimerDue(i)
          /\ att' = [att EXCEPT ![i] =
                 [@ EXCEPT !.st = "cancelled", !.late = TRUE, !.rec = Rec(att[i].el, None, "True")]]
    /\ UNCHANGED <<call, pc, cfg, path, results, ci, waited, ret, report, calls, pools, inner, entered>>

\* The fast path after run_once: the table takes any duration, the one-line
\* output formats it with :.6f, which raises TypeError on None.
AsyncFastResult(rec, detailed) ==
    IF ~detailed /\ rec[1] = NoTime THEN Raised(TypeError) ELSE Returned(rec[2])

AsyncFastFinish ==
    /\ pc = "afast"
    /\ att[1].st \in {"done", "cancelled"}
    /\ results' = <<att[1].rec>>
    /\ ret' = AsyncFastResult(att[1].rec, cfg.detailed)
    /\ pc' = IF AsyncFastResult(att[1].rec, cfg.detailed).k = "error" THEN "raised" ELSE "returned"
    /\ report' = IF AsyncFastResult(att[1].rec, cfg.detailed).k = "error"
                 THEN NoReport ELSE SingleReport(att[1].rec[1])
    /\ UNCHANGED <<call, cfg, path, att, ci, waited, calls, pools, inner, entered>>

\* gather over tasks whose run_once lets the callable's error through: the
\* first error reaches the caller of the wrapper.
AsyncFinishPropagating ==
    /\ pc = "gather"
    /\ Settled
    /\ LET res == [i \in Batch |-> att[i].rec] IN
          /\ results' = res
          /\ IF \E i \in Batch : att[i].out = "raise"
             THEN /\ ret' = Raised(CallableError)
                  /\ report' = NoReport
                  /\ pc' = "raised"
             ELSE /\ ret' = Returned(BatchReturn(res, cfg.detailed))
                  /\ report' = BatchReport(res, cfg.detailed)
                  /\ pc' = "returned"
    /\ UNCHANGED <<call, cfg, path, att, ci, waited, calls, pools, inner, entered>>

\* gather returns the tuples in task order; aggregation as in sync_wrapper.
AsyncFinish ==
    /\ pc = "gather"
    /\ Settled
    /\ LET res == [i \in Batch |-> att[i].rec] IN
          /\ results' = res
          /\ ret' = Returned(BatchReturn(res, cfg.detailed))
          /\ report' = BatchReport(res, cfg.detailed)
    /\ pc' = "returned"
    /\ UNCHANGED <<call, cfg, path, att, ci, waited, calls, pools, inner, entered>>

\* ---- the legacy decorator ------------------------------------------------
\* timeit(runs, workers, log_level, use_multiprocessing, detailed): the
\* factory checks nothing and clamps nothing; `workers` is used as given.
TimeitLegacy ==
    /\ pc = "start"
    /\ \E r \in RunsIn, w \in WorkersIn, m \in BOOLEAN, d \in BOOLEAN :
          cfg' = [MakeCfg("legacy", r, w, m, d, NoTime, FALSE) EXCEPT !.weff = w]
    /\ pc' = "ready"
    /\ UNCHANGED <<call, path, att, results, ci, waited, ret, report, calls, pools, inner, entered>>

\* `if runs < 1 or workers < 1: raise ValueError`, in the wrapper, after the
\* guard.
LegacyInvalid ==
    /\ pc = "ready"
    /\ cfg.kind = "legacy"
    /\ ConfigInvalid(cfg.runs, cfg.workers)
    /\ pc' = "raised"
    /\ ret' = Raised(ValueError)
    /\ entered' = entered + 1
    /\ UNCHANGED <<call, cfg, path, att, results, ci, waited, report, calls, pools, inner>>

\* `if (runs == 1 and workers == 1) or (runs == 1 and workers > runs):`
LegacyFast ==
    (cfg.runs = 1 /\ cfg.workers = 1) \/ (cfg.runs = 1 /\ cfg.workers > cfg.runs)

\* The legacy fast path: the callable run in place on the main thread, its
\* error let through, one duration logged.
LegacyFastPath ==
    /\ pc = "ready"
    /\ cfg.kind = "legacy"
    /\ ~ConfigInvalid(cfg.runs, cfg.workers)
    /\ LegacyFast
    /\ \E o \in Outcomes, d \in Durations :
          /\ att' = [att EXCEPT ![1] = Finished([@ EXCEPT !.args = CallerArgs, !.inv = DirectCall(call)], o, d, NoRec)]
          /\ ret' = FastPathResult(o)
          /\ pc' = IF FastPathResult(o).k = "error" THEN "raised" ELSE "returned"
          /\ report' = IF o[1] = "raise" THEN NoReport ELSE SingleReport(d)
    /\ path' = "fast"
    /\ \E k \in 0..MaxInner :
          /\ inner' = inner + k
          /\ calls' = calls + 1 + k
          /\ entered' = entered + 1 + k
    /\ UNCHANGED <<call, cfg, results, ci, waited, pools>>

LegacyBatched ==
    /\ pc = "ready"
    /\ cfg.kind = "legacy"
    /\ ~ConfigInvalid(cfg.runs, cfg.workers)
    /\ ~LegacyFast

\* `with Pool(workers) as pool: results = pool.map(_timeit_worker, worker_args)`
LegacyPoolMap ==
    /\ LegacyBatched
    /\ cfg.mp
    /\ att' = QueueAll
    /\ pools' = pools + 1
    /\ pc' = "lmap"
    /\ path' = "batch"
    /\ entered' = entered + 1
    /\ UNCHANGED <<call, cfg, results, ci, waited, ret, report, calls, inner>>

\* The same statement when a work item holds `func` and the function's name
\* is bound to the wrapper: PicklingError, no attempt runs.
LegacyPoolMapUnpicklable ==
    /\ LegacyBatched
    /\ cfg.mp
    /\ ~IsInstanceMethod(call)
    /\ att' = QueueAll
    /\ pools' = pools + 1
    /\ pc' = "raised"
    /\ ret' = Raised(PicklingError)
    /\ path' = "batch"
    /\ entered' = entered + 1
    /\ UNCHANGED <<call, cfg, results, ci, waited, report, calls, inner>>

\* `with ThreadPoolExecutor(max_workers=workers) as executor:
\*      results = list(executor.map(_timeit_worker, worker_args))`
LegacyExecutorMap ==
    /\ LegacyBatched
    /\ ~cfg.mp
    /\ att' = QueueAll
    /\ pools' = pools + 1
    /\ pc' = "lmap"
    /\ path' = "batch"
    /\ entered' = entered + 1
    /\ UNCHANGED <<call, cfg, results, ci, waited, ret, report, calls, inner>>

\* A pool thread or process takes the next work item of the legacy wrapper.
LegacyWorkerStart ==
    /\ pc = "lmap"
    /\ StartPossible
    /\ \E d \in StartDurations :
          att' = [att EXCEPT ![MinOf(Queued)] =
                     [@ EXCEPT !.st = "running", !.dur = d,
                               !.args = ReceivedArgs(MinOf(Queued)),
                               !.inv = LegacyWorkerCall(call)]]
    /\ calls' = calls + (IF LegacyWorkerCall(call).target = "func" THEN 1 ELSE 0)
    /\ UNCHANGED <<call, pc, cfg, path, results, ci, waited, ret, report, pools, inner, entered>>

\* What the legacy _timeit_worker returns: (duration, value), or None from
\* its except clause, written here as the one-element tuple <<None>> so that
\* it can stand next to the pairs.
LegacyFailed == <<None>>
LegacyRecord(o, d) == IF o[1] = "raise" THEN LegacyFailed ELSE <<d, o[2]>>

\* The callable returns or raises inside the legacy _timeit_worker.
LegacyWorkerFinish ==
    /\ pc = "lmap"
    /\ \E i \in Attempts, o \in Outcomes :
          /\ Due(i)
          /\ att' = [att EXCEPT ![i] = Finished(@, o, @.el, LegacyRecord(o, @.el))]
    /\ UNCHANGED <<call, pc, cfg, path, results, ci, waited, ret, report, calls, pools, inner, entered>>

RECURSIVE LegacyTimes(_)
\* `[result[0] for result in results if result is not None]`
LegacyTimes(res) ==
    IF res = <<>> THEN <<>>
    ELSE IF Head(res) # LegacyFailed
         THEN <<Head(res)[1]>> \o LegacyTimes(Tail(res))
         ELSE LegacyTimes(Tail(res))

\* `return results[0][1] if results else None`: subscripting the None of a
\* failed first attempt is a TypeError.
LegacyReturn(res) ==
    IF res = <<>> THEN Returned(None)
    ELSE IF res[1] = LegacyFailed THEN Raised(TypeError)
    ELSE Returned(res[1][2])

\* map is back with every worker's result in submission order: RuntimeError
\* when there is no duration; else the statistics are logged and the return
\* statement runs.
LegacyFinish ==
    /\ pc = "lmap"
    /\ Settled
    /\ LET res == [i \in Batch |-> att[i].rec] IN
          /\ results' = res
          /\ IF LegacyTimes(res) = <<>>
             THEN /\ ret' = Raised(RuntimeError)
                  /\ report' = NoReport
                  /\ pc' = "raised"
             ELSE /\ ret' = LegacyReturn(res)
                  /\ report' = [kind |-> "stats", times |-> LegacyTimes(res),
                                anyTO |-> FALSE,
                                stats |-> Statistics(LegacyTimes(res))]
                  /\ pc' = IF LegacyReturn(res).k = "error" THEN "raised" ELSE "returned"
    /\ UNCHANGED <<call, cfg, path, att, ci, waited, calls, pools, inner, entered>>

\* ---- reentrancy ---------------------------------------------------------
\* The body of a callable running in a pool thread or a pool process calls
\* the wrapped callable: current_thread() is not the main thread (or the
\* process is not MainProcess), so the call is `return func(*args)`.
WorkerReenter ==
    /\ pc \in {"collect", "mapping", "lmap"}
    /\ Running # {}
    /\ inner < MaxInner
    /\ inner' = inner + 1
    /\ calls' = calls + 1
    /\ UNCHANGED <<call, pc, cfg, path, att, results, ci, waited, ret, report, pools, entered>>

\* A guard that knows a task of the coordinator for a harness worker: the
\* inner call is the plain coroutine function, awaited once.
TaskReenterBypassed ==
    /\ pc \in {"gather", "afast"}
    /\ Running # {}
    /\ inner < MaxInner
    /\ inner' = inner + 1
    /\ calls' = calls + 1
    /\ UNCHANGED <<call, pc, cfg, path, att, results, ci, waited, ret, report, pools, entered>>

\* The body of a coroutine running as a task of the event loop calls the
\* wrapped callable: the task runs on the main thread of the main process,
\* so neither test of the guard holds and the call goes through the
\* wrapper's body again (its own semaphore and gather unless runs is 1,
\* runs invocations of the callable, its own log line).
TaskReenter ==
    /\ pc \in {"gather", "afast"}
    /\ Running # {}
    /\ inner < MaxInner
    /\ inner' = inner + 1
    /\ entered' = entered + 1
    /\ calls' = calls + cfg.runs
    /\ UNCHANGED <<call, pc, cfg, path, att, results, ci, waited, ret, report, pools>>

\* ---- time ---------------------------------------------------------------
\* The thread coordinator is blocked in future.result on a future that is
\* not done and, when enforcing, whose timeout has not expired.
CoordinatorBlocked ==
    IF pc = "collect" /\ ci <= cfg.runs
    THEN att[ci].st # "done" /\ (Enforcing => waited < cfg.timeout)
    ELSE TRUE

\* One tick passes: nothing is due now, so every running callable and the
\* coordinator's wait grow one tick older.  The age of a callable that never
\* returns is not counted beyond MaxDur, which no timeout exceeds.
Tick ==
    /\ pc \in {"collect", "mapping", "lmap", "gather", "afast"}
    /\ Running # {}
    /\ NothingDue
    /\ CoordinatorBlocked
    /\ pc \in {"gather", "afast"} => \A i \in Attempts : ~TimerDue(i)
    /\ att' = [i \in Attempts |->
                 IF att[i].st = "running" /\ att[i].el < MaxDur
                 THEN [att[i] EXCEPT !.el = @ + 1] ELSE att[i]]
    /\ waited' = IF pc = "collect" /\ Enforcing /\ ci <= cfg.runs THEN waited + 1 ELSE waited
    /\ UNCHANGED <<call, pc, cfg, path, results, ci, ret, report, calls, pools, inner, entered>>

Next ==
    \/ TimeitSync
    \/ TimeitAsync
    \/ GuardBypass
    \/ SyncFastPath
    \/ SyncRejectMultiprocessing
    \/ SyncPoolMap
    \/ SyncPoolMapUnpicklable
    \/ SyncSubmit
    \/ WorkerStart
    \/ WorkerFinish
    \/ CollectResult
    \/ CollectTimeout
    \/ SyncFinish
    \/ SyncMapFinish
    \/ AsyncFastStart
    \/ AsyncGather
    \/ TaskStart
    \/ TaskFinish
    \/ TaskTimerSoft
    \/ TaskTimerEnforced
    \/ AsyncFastFinish
    \/ AsyncFinish
    \/ WorkerReenter
    \/ TaskReenter
    \/ Tick

Spec == Init /\ [][Next]_vars

\* The event loop runs every task that is ready: a task waiting at the
\* semaphore gets it once it is free, a coroutine reaches its end, a timer
\* that is due fires, the wrapper goes on once run_once or gather is back,
\* and time passes.
AsyncFairness ==
    /\ WF_vars(TaskStart)
    /\ WF_vars(TaskFinish)
    /\ WF_vars(TaskTimerSoft)
    /\ WF_vars(TaskTimerEnforced)
    /\ WF_vars(AsyncFastFinish)
    /\ WF_vars(AsyncFinish)
    /\ WF_vars(Tick)

FairSpec == Spec /\ AsyncFairness

\* The thread pool and its coordinator keep going: a free pool thread takes
\* the next work item, a callable that has reached its end returns, the
\* coordinator takes a result that is there, gives up when its wait has
\* expired and leaves the with block once it can, and time passes.
SyncFairness ==
    /\ WF_vars(WorkerStart)
    /\ WF_vars(WorkerFinish)
    /\ WF_vars(CollectResult)
    /\ WF_vars(CollectTimeout)
    /\ WF_vars(SyncFinish)
    /\ WF_vars(Tick)

FairSyncSpec == Spec /\ SyncFairness

\* Both coordinators under their schedulers.
FairCallSpec == Spec /\ SyncFairness /\ AsyncFairness

\* ---- the thread and process based decorators under any call ------------
\* The decorators are built and the wrapper is about to be called with
\* arguments of any shape.
AnyCallInit ==
    /\ pc = "start"
    /\ cfg = NoCfg
    /\ path = "none"
    /\ att = [i \in Attempts |-> IdleAtt]
    /\ results = <<>>
    /\ ci = 1
    /\ waited = 0
    /\ ret = NoRet
    /\ report = NoReport
    /\ calls = 0
    /\ pools = 0
    /\ inner = 0
    /\ entered = 0
    /\ call \in CallShapes

PoolNext ==
    \/ TimeitSync
    \/ TimeitLegacy
    \/ GuardBypass
    \/ SyncFastPath
    \/ SyncRejectMultiprocessing
    \/ SyncPoolMap
    \/ SyncPoolMapUnpicklable
    \/ SyncSubmit
    \/ WorkerStart
    \/ WorkerFinish
    \/ CollectResult
    \/ CollectTimeout
    \/ SyncFinish
    \/ SyncMapFinish
    \/ LegacyInvalid
    \/ LegacyFastPath
    \/ LegacyPoolMap
    \/ LegacyPoolMapUnpicklable
    \/ LegacyExecutorMap
    \/ LegacyWorkerStart
    \/ LegacyWorkerFinish
    \/ LegacyFinish
    \/ WorkerReenter
    \/ Tick

PoolSpec == AnyCallInit /\ [][PoolNext]_vars

\* ---- the aggregation on its own -----------------------------------------
\* The records a batch may hand to the aggregation: failed ones and ones
\* with a duration and a value.
MaxSamples == 3
SampleRecords ==
    {Rec(NoTime, None, "None")} \cup {Rec(d, "a", "False") : d \in Durations}

\* The wrapper at `# Extract timing and result data`, with any sequence of
\* up to MaxSamples records collected.
StatsInit ==
    /\ pc = "aggregate"
    /\ results \in UNION {[1..n -> SampleRecords] : n \in 1..MaxSamples}
    /\ \E d \in BOOLEAN :
          cfg = MakeCfg("sync", Len(results), 1, FALSE, d, NoTime, FALSE)
    /\ path = "batch"
    /\ att = [i \in Attempts |-> IdleAtt]
    /\ ci = 1
    /\ waited = 0
    /\ ret = NoRet
    /\ report = NoReport
    /\ calls = 0
    /\ pools = 0
    /\ inner = 0
    /\ entered = 1
    /\ call = PlainCall

\* Lines 208-251 of sync_wrapper (157-197 of async_wrapper) on those records.
Aggregate ==
    /\ pc = "aggregate"
    /\ ret' = Returned(BatchReturn(results, cfg.detailed))
    /\ report' = BatchReport(results, cfg.detailed)
    /\ pc' = "returned"
    /\ UNCHANGED <<call, cfg, path, att, results, ci, waited, calls, pools, inner, entered>>

StatsSpec == StatsInit /\ [][Aggregate]_vars

\* ---- properties ---------------------------------------------------------
Terminated == pc \in {"returned", "raised"}

\* C1: timeit_sync(...) and timeit_async(...) called with runs < 1 or
\* workers < 1 raise ValueError from the factory itself: no decorator is
\* produced, so nothing is wrapped and the callable is never invoked.
C1_InvalidConfigRejected ==
    (cfg.kind # "none" /\ (cfg.runs < 1 \/ cfg.workers < 1)) =>
        /\ pc = "cfgError"
        /\ ret = Raised(ValueError)
        /\ calls = 0
        /\ path = "none"

C1_Witness ==
    pc = "cfgError" /\ cfg.kind = "async" /\ cfg.runs >= 1 /\ cfg.workers < 1

\* C2: in every accepted configuration the worker count the coordinator
\* works with is the smaller of workers and runs and is at least 1, and no
\* more attempts than that run at once (runs=2, workers=3: a pool of 2).
C2_EffectiveWorkers ==
    pc \notin {"start", "cfgError"} =>
        /\ cfg.weff >= 1
        /\ cfg.weff <= cfg.runs
        /\ cfg.weff <= cfg.workers
        /\ cfg.weff = cfg.runs \/ cfg.weff = cfg.workers
        /\ Cardinality(Running) <= cfg.runs
        /\ Cardinality(Running) <= cfg.workers

C2_Witness ==
    /\ path = "batch"
    /\ cfg.runs = 2 /\ cfg.workers = 3
    /\ Cardinality(Running) = 2

\* C3: a configuration with enforce_timeout and use_multiprocessing both
\* true is rejected when the decorator is built, whatever runs and workers
\* are, so the callable is never invoked under it.
C3_EnforceWithMultiprocessingRejected ==
    (cfg.enforce /\ cfg.mp) => (pc = "cfgError" /\ calls = 0)

\* C4: the synchronous fast path (runs=1, workers=1, main thread) invokes
\* the callable exactly once (once per pass, when the body calls the wrapped
\* callable again), creates no pool, lets a raised error through
\* unchanged with no report, and returns the callable's value (None
\* included) after one single-sample report.
C4_SyncFastPath ==
    /\ (cfg.kind = "sync" /\ Terminated /\ path # "bypass"
            /\ cfg.runs = 1 /\ cfg.workers = 1) => path = "fast"
    /\ (cfg.kind = "sync" /\ path = "fast") =>
        /\ calls = entered
        /\ inner = 0 => calls = 1
        /\ pools = 0
        /\ att[1].out = "raise" =>
              pc = "raised" /\ ret = Raised(CallableError) /\ report = NoReport
        /\ att[1].out = "ok" =>
              /\ pc = "returned"
              /\ ret = Returned(att[1].val)
              /\ report = SingleReport(att[1].el)

C4_Witness ==
    /\ cfg.kind = "sync" /\ path = "fast"
    /\ cfg.runs = 1 /\ cfg.workers = 1
    /\ att[1].out = "raise"
    /\ pc = "raised"

\* C5: on the asynchronous fast path an error raised by the awaited
\* callable reaches the caller unchanged, with detailed true or false.
C5_AsyncFastPathPropagates ==
    (cfg.kind = "async" /\ path = "fast" /\ Terminated /\ att[1].out = "raise") =>
        (pc = "raised" /\ ret = Raised(CallableError))

\* C6: a batched call with no timeout, of a callable that returns the same
\* non-None value v whenever it is invoked, returns v: in the thread pool,
\* the process pool and the asyncio coordinator, for every worker count.
\* (The combination of C3, which the call itself rejects, is left aside.)
C6_BatchReturnsValue ==
    \A v \in Values :
        (/\ Terminated
         /\ path = "batch"
         /\ cfg.timeout = NoTime
         /\ ~(cfg.mp /\ cfg.enforce)
         /\ \A i \in Batch : att[i].out = "ok" => att[i].val = v
         /\ \A i \in Batch : att[i].out # "raise")
        => (pc = "returned" /\ ret = Returned(v))

\* C7: a batched call (thread pool or asyncio) whose callable raises on
\* every attempt returns None, lets no exception out and emits no report.
C7_AllRaiseReturnsNone ==
    (/\ Terminated
     /\ path = "batch"
     /\ ~cfg.mp
     /\ \A i \in Batch : att[i].out = "raise")
    => (pc = "returned" /\ ret = Returned(None) /\ report = NoReport)

\* C8: the value returned or the error raised does not depend on detailed:
\* with the same result records, the configuration that differs only in
\* detailed ends the call the same way.
C8_DetailedOnlyVerbosity ==
    /\ (pc = "returned" /\ path = "batch") =>
          ret = Returned(BatchReturn(results, ~cfg.detailed))
    /\ (Terminated /\ path = "fast" /\ cfg.kind = "async") =>
          ret = AsyncFastResult(results[1], ~cfg.detailed)

C10_SoftTimeout ==
    (/\ Terminated
     /\ path \in {"batch", "fast"}
     /\ cfg.kind = "sync" => path = "batch"
     /\ cfg.timeout # NoTime /\ ~cfg.enforce
     /\ \E i \in Batch : att[i].out # "none")
    => /\ \A i \in Batch :
            /\ att[i].st = "done"
            /\ att[i].rec[3] = "True" <=>
                  (att[i].out = "ok" /\ att[i].el > cfg.timeout)
            /\ att[i].rec[3] = "True" =>
                  att[i].rec[1] = att[i].el /\ att[i].rec[2] = att[i].val
       /\ (\E i \in Batch : att[i].rec[3] = "True") =>
            \E j \in Batch : att[j].out = "ok" /\ ret = Returned(att[j].val)

\* The thread-pool call that enforces a timeout (`if enforce_timeout and
\* timeout:` taken) and has returned.
EnforcedThreadCallDone ==
    /\ pc = "returned" /\ path = "batch"
    /\ cfg.kind = "sync" /\ ~cfg.mp
    /\ Enforcing

\* C11: in a thread-pool call that enforces a timeout, every attempt whose
\* own execution took longer than timeout is collected as a timed-out record
\* with no value, whatever its index, the worker count and the time the
\* coordinator spent on earlier attempts; and no collected record that is
\* not timed out has a duration above timeout.
C11_EnforcedThreadRecords ==
    EnforcedThreadCallDone =>
        \A i \in Batch :
            /\ (att[i].st = "done" /\ att[i].el > cfg.timeout) =>
                  (results[i][3] = "True" /\ results[i][2] = None)
            /\ results[i][3] # "True" => results[i][1] <= cfg.timeout

\* C12: a thread-pool call that enforces a timeout returns the value of an
\* attempt that ran within timeout and returned a value, whenever there is
\* such an attempt: for every worker count, also when that attempt waited
\* in the queue behind slower ones.
C12_EnforcedThreadReturnsInTimeValue ==
    LET InTime == {i \in Batch : /\ att[i].st = "done" /\ att[i].out = "ok"
                                 /\ att[i].val # None
                                 /\ att[i].el <= cfg.timeout} IN
        (EnforcedThreadCallDone /\ InTime # {}) =>
            \E j \in InTime : ret = Returned(att[j].val)

\* C13: a call that the reentrancy guard short-circuits invokes the plain
\* callable once and hands back its outcome with no pool, no pass through
\* the wrapper's body and no report; and one batched outer call, whose
\* attempts may call the wrapped callable from their bodies, passes through
\* the wrapper's body once (the outer call itself) and, when synchronous,
\* creates one pool.
C13_Reentrancy ==
    /\ path = "bypass" =>
          /\ calls = 1 /\ pools = 0 /\ entered = 0 /\ report = NoReport
          /\ att[1].out = "raise" => ret = Raised(CallableError)
          /\ att[1].out = "ok" => ret = Returned(att[1].val)
    /\ path = "batch" =>
          /\ entered = 1
          /\ (cfg.kind = "sync" /\ ~(cfg.mp /\ cfg.enforce)) => pools = 1

\* C14: in a batched call (thread pool, process pool, asyncio) an attempt
\* that raises never makes the call raise and is collected as a failed
\* record (no duration, no value) unless the coordinator had already given
\* up on it; and where no timeout is enforced every attempt of that call
\* still runs to its end and its own record is collected at its own index.
C14_FailureIsolation ==
    (/\ Terminated
     /\ path = "batch"
     /\ \E i \in Batch : att[i].out = "raise")
    => /\ pc = "returned"
       /\ Len(results) = cfg.runs
       /\ \A i \in Batch :
             att[i].out = "raise" =>
                \/ results[i][1] = NoTime /\ results[i][2] = None
                \/ Enforcing /\ results[i] = Rec(cfg.timeout, None, "True")
       /\ ~Enforcing =>
             \A j \in Batch :
                /\ att[j].st = "done"
                /\ results[j] = att[j].rec
                /\ att[j].out = "ok" =>
                      results[j][1] = att[j].el /\ results[j][2] = att[j].val

\* Attempt 1 raises, attempt 2 returns a value, the call returns that value.
C14_Witness ==
    /\ pc = "returned" /\ path = "batch"
    /\ cfg.kind = "async"
    /\ att[1].out = "raise"
    /\ att[2].out = "ok" /\ att[2].val = "b"
    /\ ret = Returned("b")

\* C15: on the asynchronous fast path with a timeout, a coroutine that
\* returns: when it ends within timeout the call returns its value, with
\* enforce_timeout true or false; when it has not ended as timeout elapses,
\* an enforcing call cancels it and returns None, and a call that does not
\* enforce lets it end and returns its value.
C15_AsyncFastPathTimeout ==
    (/\ Terminated
     /\ cfg.kind = "async" /\ path = "fast"
     /\ cfg.timeout # NoTime
     /\ att[1].out # "raise")
    => IF cfg.enforce /\ att[1].dur > cfg.timeout
       THEN att[1].st = "cancelled" /\ ret = Returned(None)
       ELSE att[1].st = "done" /\ ret = Returned(att[1].val)

\* C16: in a synchronous batched call no more than min(workers, runs)
\* attempts are inside the callable at any moment, also while an enforcing
\* coordinator has given up on an attempt that is still running; only
\* attempts of the batch run.
C16_SyncConcurrencyBound ==
    (cfg.kind = "sync" /\ path = "batch") =>
        /\ Running \subseteq Batch
        /\ Cardinality(Running) <= cfg.workers
        /\ Cardinality(Running) <= cfg.runs

\* workers = runs = 2, enforcing: the coordinator has given up on attempt 1,
\* which still runs next to attempt 2.
C16_Witness ==
    /\ cfg.kind = "sync" /\ path = "batch"
    /\ cfg.workers = 2 /\ cfg.runs = 2
    /\ Enforcing
    /\ ci = 2 /\ results = <<Rec(cfg.timeout, None, "True")>>
    /\ Running = {1, 2}

\* In an asynchronous batched call the tasks inside the semaphore are the
\* running ones: at most workers and at most runs of them, none with a
\* record yet, and every task that has left it has its record.
GateSafe ==
    (cfg.kind = "async" /\ path = "batch") =>
        /\ Running \subseteq Batch
        /\ Cardinality(Running) <= cfg.workers
        /\ Cardinality(Running) <= cfg.runs
        /\ \A i \in Batch :
              /\ att[i].st \in {"queued", "running"} =>
                    (att[i].rec = NoRec /\ (att[i].st = "queued" => att[i].el = 0))
              /\ att[i].st \in {"done", "cancelled"} => att[i].rec # NoRec

\* C17: in an asynchronous batched call a coroutine is started only by a
\* task holding the semaphore, the semaphore is given back when the task's
\* record is produced (value, failure or timeout), so at most
\* min(workers, runs) tasks hold it at any moment; and every task waiting
\* for it acquires it in the end, unless a task inside never finishes.
C17_AdmissionGate ==
    /\ []GateSafe
    /\ \A i \in Attempts :
          (cfg.kind = "async" /\ path = "batch" /\ i \in Batch /\ att[i].st = "queued")
              ~> (att[i].st # "queued" \/ \E j \in Running : att[j].dur = Forever)

\* One slot, two tasks: task 1 has produced its record and task 2 is inside.
C17_Witness ==
    /\ cfg.kind = "async" /\ path = "batch"
    /\ cfg.weff = 1 /\ cfg.runs = 2
    /\ att[1].st \in {"done", "cancelled"} /\ att[1].rec # NoRec
    /\ att[2].st = "running"

\* The attempts whose callable the harness has started: those running or
\* done, and the asyncio tasks cancelled inside run_once (they have a
\* record; a future cancelled in the thread pool's queue has none).
StartedAttempts ==
    {i \in Attempts : \/ att[i].st \in {"running", "done"}
                      \/ att[i].st = "cancelled" /\ att[i].rec # NoRec}

\* C18: a batched call that returns has started the callable once for each
\* of its runs attempts, and for no other, and has collected runs records:
\* thread pool with and without an enforced timeout, process pool, asyncio.
C18_RunsAttemptsRunsRecords ==
    (pc = "returned" /\ path = "batch") =>
        /\ Len(results) = cfg.runs
        /\ StartedAttempts = Batch

\* The collected records that hold a duration, in order.
HasDuration(r) == r[1] # NoTime
TimedRecords == SelectSeq(results, HasDuration)

\* C19: the statistics of a batched call are taken over exactly the
\* collected records that are not failed, i.e. that hold a duration: the
\* samples are their durations, their number is the number of such records,
\* a record of an attempt that raised adds none, and a report is logged if
\* and only if there is at least one sample.
C19_SamplesAreNonFailedRecords ==
    (pc = "returned" /\ path = "batch") =>
        /\ report.times = [k \in 1..Len(TimedRecords) |-> TimedRecords[k][1]]
        /\ Len(report.times) =
              Cardinality({i \in 1..Len(results) : results[i][1] # NoTime})
        /\ report.kind = (IF Len(TimedRecords) >= 1 THEN "stats" ELSE "none")
        /\ \A i \in Batch :
              (att[i].out = "raise" /\ results[i] = att[i].rec) =>
                  (results[i][1] = NoTime /\ Len(report.times) < cfg.runs)

\* Attempt 1 raised and attempt 2 returned: one sample, one report.
C19_Witness ==
    /\ pc = "returned" /\ path = "batch"
    /\ cfg.runs = 2
    /\ att[1].out = "raise" /\ results[1][1] = NoTime
    /\ results[2][1] # NoTime
    /\ report.kind = "stats" /\ report.times = <<results[2][1]>>

\* C20: in a synchronous batched call, thread pool or process pool, every
\* attempt works on argument objects of its own: never on the caller's, and
\* never on those another attempt of the batch works on.
C20_NoSharedArguments ==
    (cfg.kind = "sync" /\ path = "batch") =>
        \A i \in StartedAttempts :
            /\ att[i].args # CallerArgs
            /\ \A j \in StartedAttempts : j # i => att[j].args # att[i].args

\* C21: a thread-pool call that enforces a timeout returns to its caller
\* once the coordinator has stopped waiting for each attempt, without
\* waiting for the threads of timed-out attempts: it returns even when a
\* timed-out attempt never ends.
C21_EnforcedThreadCallReturns ==
    (cfg.kind = "sync" /\ pc = "collect" /\ Enforcing) ~> (pc = "returned")

\* C22: on the synchronous fast path enforce_timeout changes nothing: with
\* a timeout and enforce_timeout true the callable still runs to its end
\* however long it takes, is never cancelled, and the call returns its value
\* or raises its error, with the one-sample report of its full duration,
\* just as the call does with enforce_timeout false.
C22_SyncFastPathIgnoresEnforce ==
    (cfg.kind = "sync" /\ path = "fast" /\ cfg.timeout # NoTime) =>
        /\ att[1].st = "done" /\ att[1].el = att[1].dur
        /\ att[1].out = "ok" =>
              /\ pc = "returned" /\ ret = Returned(att[1].val)
              /\ report = SingleReport(att[1].dur)
        /\ att[1].out = "raise" =>
              /\ pc = "raised" /\ ret = Raised(CallableError)
              /\ report = NoReport

\* Enforcing, and the callable took longer than timeout: its value is back.
C22_Witness ==
    /\ cfg.kind = "sync" /\ path = "fast"
    /\ cfg.enforce /\ cfg.timeout = 1
    /\ att[1].el > cfg.timeout
    /\ ret = Returned("a")

\* C23: with no timeout, enforce_timeout true or false, nothing is timed:
\* no attempt is ever cancelled or marked late and the coordinator never
\* counts a wait; and once a call whose attempts were dispatched is over,
\* every attempt has run to its end, no record is timed out and the report
\* does not say Timed Out.  Fast and batched path, sync and async.  (The
\* combination of C3, which the call itself rejects, is left aside.)
C23_NoTimeoutNoTimeoutLogic ==
    (cfg.kind # "none" /\ cfg.timeout = NoTime /\ ~(cfg.mp /\ cfg.enforce)) =>
        /\ \A i \in Attempts : att[i].st # "cancelled" /\ ~att[i].late
        /\ waited = 0
        /\ \A k \in 1..Len(results) : results[k][3] # "True"
        /\ (Terminated /\ path \in {"batch", "fast"}
                /\ \E i \in Batch : att[i].out # "none") =>
              /\ \A i \in Batch :
                    /\ att[i].st = "done" /\ att[i].el = att[i].dur
                    /\ att[i].rec # NoRec => att[i].rec[3] # "True"
              /\ ~report.anyTO

\* Enforcing without a timeout in the thread pool: both attempts ran 3 ticks
\* and the call returned a value.
C23_Witness ==
    /\ pc = "returned" /\ path = "batch"
    /\ cfg.kind = "sync" /\ ~cfg.mp
    /\ cfg.enforce /\ cfg.timeout = NoTime /\ cfg.detailed
    /\ \A i \in Batch : att[i].el = MaxDur
    /\ ret = Returned("a")

\* C24: the Timed Out entry of a batched call's statistics table is true if
\* and only if some collected record that holds a duration is timed out; a
\* failed record is never timed out, and the records of a soft timeout and
\* of an enforced cancellation are.
C24_AnyTimedOut ==
    (pc = "returned" /\ path = "batch" /\ cfg.detailed /\ report.kind = "stats") =>
        /\ report.anyTO <=>
              \E k \in 1..Len(results) :
                  results[k][1] # NoTime /\ results[k][3] = "True"
        /\ \A k \in 1..Len(results) :
              results[k][1] = NoTime => results[k][3] # "True"
        /\ (\E i \in Batch :
                att[i].st = "cancelled" \/ (att[i].late /\ att[i].out = "ok"))
              => report.anyTO
        /\ (\E i \in Batch : results[i] = att[i].rec /\ att[i].out = "ok"
                /\ ~cfg.enforce /\ Truthy(cfg.timeout) /\ att[i].el > cfg.timeout)
              => report.anyTO

\* One record timed out, one not: the table says Timed Out.
C24_Witness ==
    /\ pc = "returned" /\ path = "batch" /\ cfg.detailed
    /\ Len(results) = 2
    /\ results[1][3] = "False" /\ results[1][1] # NoTime
    /\ results[2][3] = "True"
    /\ report.anyTO

\* An asynchronous call with a timeout and enforce_timeout true.
AsyncEnforcedCall ==
    /\ cfg.kind = "async" /\ path \in {"batch", "fast"}
    /\ cfg.enforce /\ cfg.timeout # NoTime

\* No task of such a call is inside its coroutine past the timeout; a task
\* whose coroutine had not ended by then is cancelled, out of the semaphore,
\* and has the record (elapsed, None, True) with elapsed equal to timeout.
EnforcedCancelSafe ==
    AsyncEnforcedCall =>
        \A i \in Batch :
            /\ att[i].st \in {"running", "done"} => att[i].el <= cfg.timeout
            /\ att[i].st = "cancelled" =>
                  /\ att[i].dur > cfg.timeout
                  /\ att[i].el = cfg.timeout
                  /\ att[i].rec = Rec(cfg.timeout, None, "True")
                  /\ att[i].out = "none"

\* C25: in an asynchronous call that enforces a timeout, a task still in
\* its coroutine when timeout has elapsed since it started is cancelled
\* there and then and goes no further, its record is (elapsed, None, True),
\* not a failed one, and its semaphore slot is free again; so the call
\* returns even when the coroutine would never end.
C25_AsyncEnforcedCancel ==
    /\ []EnforcedCancelSafe
    /\ (AsyncEnforcedCall /\ pc \in {"gather", "afast"}) ~> Terminated

\* A call that runs its attempts in the thread pool or under asyncio.
ThreadOrAsyncCall ==
    /\ path \in {"batch", "fast"}
    /\ cfg.kind = "async" \/ (path = "batch" /\ ~cfg.mp)

\* Once such a call has returned or raised, no attempt is in the callable or
\* in the queue: each has ended or was cancelled, and the ones that ended
\* have their record.
CallOverAttemptsOver ==
    (ThreadOrAsyncCall /\ Terminated) =>
        /\ Running = {} /\ Queued = {}
        /\ \A i \in Batch :
              /\ att[i].st \in {"done", "cancelled"}
              /\ att[i].st = "done" => att[i].rec # NoRec

\* C26: a call of the wrapped callable is synchronous: it returns or raises
\* only after every dispatched attempt has produced its record; and it does
\* return or raise unless an attempt inside the callable never ends, for
\* every runs, workers, timeout and enforce_timeout, thread pool and asyncio.
C26_CallSynchronous ==
    /\ []CallOverAttemptsOver
    /\ (ThreadOrAsyncCall /\ pc \in {"collect", "gather", "afast"})
          ~> (Terminated \/ \E j \in Running : att[j].dur = Forever)

\* The enforcing coordinator gave up on attempt 1, the call still returned
\* only after attempt 1 had ended.
C26_Witness ==
    /\ pc = "returned" /\ path = "batch"
    /\ cfg.kind = "sync" /\ Enforcing
    /\ results[1] = Rec(cfg.timeout, None, "True")
    /\ att[1].st = "done" /\ att[1].out = "ok" /\ att[1].el = MaxDur

\* C27: a batched call whose callable returned None, without error, on
\* every attempt is not an all-failed call: the durations are aggregated,
\* one sample per attempt, a report is logged, and the call returns None,
\* with detailed true or false.
C27_NoneIsNotFailure ==
    (/\ pc = "returned" /\ path = "batch"
     /\ \A i \in Batch : att[i].out = "ok" /\ att[i].val = None)
    => /\ report.kind = "stats"
       /\ Len(report.times) = cfg.runs
       /\ \A i \in Batch : results[i] = att[i].rec => report.times[i] = att[i].el
       /\ ret = Returned(None)

\* Two attempts returned None after 1 and 2 ticks; detailed report, None.
C27_Witness ==
    /\ pc = "returned" /\ path = "batch" /\ cfg.detailed
    /\ \A i \in Batch : att[i].out = "ok" /\ att[i].val = None
    /\ report.times = <<1, 2>>
    /\ ret = Returned(None)

\* C28: every record either coordinator has collected is well formed: a
\* failed record (that of an attempt that raised, taken as the attempt left
\* it) holds neither duration nor value; a record with a value holds a
\* duration and belongs to an attempt that ended and was not cancelled; and
\* the record of an enforced timeout holds the timeout or the elapsed time
\* as duration and no value.
C28_RecordsWellFormed ==
    \A k \in 1..Len(results) :
        /\ results[k][1] = NoTime => results[k][2] = None
        /\ (att[k].out = "raise" /\ results[k] = att[k].rec) =>
              (results[k][1] = NoTime /\ results[k][2] = None)
        /\ results[k][2] # None =>
              /\ results[k][1] # NoTime
              /\ att[k].st = "done" /\ att[k].out = "ok"
              /\ results[k][2] = att[k].val
        /\ (cfg.enforce /\ results[k][3] = "True") =>
              /\ results[k][2] = None
              /\ results[k][1] = cfg.timeout
              /\ att[k].st \in {"cancelled", "running", "done"}

\* An asyncio batch that enforces: one failed record, one cancellation.
C28_Witness ==
    /\ pc = "returned" /\ path = "batch" /\ cfg.kind = "async"
    /\ results[1] = Rec(NoTime, None, "False") /\ att[1].out = "raise"
    /\ results[2] = Rec(cfg.timeout, None, "True") /\ att[2].st = "cancelled"

\* C29: the statistics of a report over n >= 1 samples: min and max are
\* samples bounding all samples; the median lies between them with at least
\* half of the samples on either side; the average lies between them
\* (n * min <= total <= n * max); total is the sum of the samples; and the
\* standard deviation is 0 for one sample and positive for several samples
\* that are not all equal.
C29_StatisticsConsistent ==
    report.kind = "stats" =>
        LET x == report.times
            st == report.stats
            n == Len(x)
            upTo[k \in 0..n] == IF k = 0 THEN 0 ELSE upTo[k - 1] + x[k]
        IN  /\ n >= 1 /\ st.n = n
            /\ \E k \in 1..n : x[k] = st.min
            /\ \E k \in 1..n : x[k] = st.max
            /\ \A k \in 1..n : st.min <= x[k] /\ x[k] <= st.max
            /\ 2 * st.min <= st.med2 /\ st.med2 <= 2 * st.max
            /\ 2 * Cardinality({k \in 1..n : 2 * x[k] <= st.med2}) >= n
            /\ 2 * Cardinality({k \in 1..n : 2 * x[k] >= st.med2}) >= n
            /\ st.total = upTo[n]
            /\ n * st.min <= st.total /\ st.total <= n * st.max
            /\ n = 1 => st.var = 0
            /\ st.var >= 0
            /\ st.var > 0 <=> (n > 1 /\ \E j, k \in 1..n : x[j] # x[k])

\* Three samples out of order: 3, 0, 1.
C29_Witness ==
    /\ report.kind = "stats"
    /\ report.times = <<3, 0, 1>>
    /\ report.stats.med2 = 2 /\ report.stats.total = 4
    /\ report.stats.min = 0 /\ report.stats.max = 3
    /\ report.stats.var > 0

C30_WitnessFastPath ==
    /\ cfg.kind = "sync" /\ path = "fast"
    /\ inner = 1 /\ entered = 2 /\ calls = 2

\* C31: in the batched path of timeit_sync and of the legacy timeit, every
\* attempt that runs invokes the original callable, once, with all the
\* positional arguments of the outer call and with its keyword arguments,
\* whatever the first positional argument is: absent, an ordinary object,
\* the receiver of a decorated method, or an object that has an attribute
\* named like the callable.
C31_AttemptsInvokeOriginal ==
    (cfg.kind \in {"sync", "legacy"} /\ path = "batch") =>
        /\ \A i \in Batch :
              att[i].st \in {"running", "done"} => att[i].inv = DirectCall(call)
        /\ calls = inner + Cardinality({i \in Batch : att[i].st \in {"running", "done"}})

\* C32: a batched call of the legacy timeit whose attempts ran returns
\* whenever at least one attempt produced a result, with the value of the
\* first execution when that one produced a result; no failure of an attempt
\* comes out as an error; and the only error is RuntimeError, raised exactly
\* when no attempt produced a result.
C32_LegacyBatchReturn ==
    (/\ cfg.kind = "legacy" /\ path = "batch" /\ Terminated
     /\ \E i \in Batch : att[i].out # "none")
    => /\ (\E i \in Batch : att[i].out = "ok") => pc = "returned"
       /\ att[1].out = "ok" => ret = Returned(att[1].val)
       /\ (\A i \in Batch : att[i].out = "raise") => ret = Raised(RuntimeError)
       /\ pc = "raised" =>
             ret = Raised(RuntimeError) /\ \A i \in Batch : att[i].out = "raise"
====
